---- MODULE Spec2Model ----
(***************************************************************************)
(* Cutieview: the directory scanner (functions.list_image_files), the      *)
(* thumbnail refresh (functions.populate_thumbnails), the flow layout      *)
(* (functions.FlowLayout) and the refresh timer (main.SimpleApp).          *)
(*                                                                         *)
(* File names and extensions are sequences of character codes, so that     *)
(* str.lower, os.path.splitext and sorted are computed, not assumed.       *)
(***************************************************************************)
EXTENDS Integers, Sequences, FiniteSets, TLC

VARIABLES
    \* ---- directory scanner harness (list_image_files as a function) ----
    sc_pc,        \* "ready": arguments chosen; "done": the call has returned
    sc_dir,       \* dir_path argument ("" or a directory)
    sc_walk,      \* what the file system holds under dir_path (see Walks)
    sc_exts,      \* exts argument: None or a list of strings
    sc_rec,       \* recursive argument
    sc_lim,       \* limit argument: None or an integer
    sc_res,       \* the returned list
    \* ---- flow layout harness (FlowLayout.doLayout as a function) ----
    fl_pc,        \* "new": items added; "laid": setGeometry has placed them
    fl_items,     \* the sizeHint() of each item of _item_list: [w, h]
    fl_spacing,   \* self.spacing()
    fl_rect,      \* the rect of the last setGeometry call
    fl_geom,      \* the position item.setGeometry gave each item: [x, y]
    fl_ret,       \* the value doLayout returned last
    \* ---- the application (main.py) ----
    alive,            \* the process runs
    config,           \* config['Settings']: wallpaper_path, interval_seconds
    fs,               \* the regular files directly in each directory
    settings_window,  \* self.settings_window: None or the window (its path_edit text)
    checkedId,        \* self.rb_group.checkedId()
    label,            \* the directory self.label shows
    _timer,           \* self._timer: 0 is None, else an index of qtimers
    qtimers,          \* every QTimer start_qtimer created: interval, callback, active
    timer_button,     \* self.timer_button.text()
    _item_list,       \* self.thumbs_layout._item_list: the QLabels, each with the
                      \* populate_thumbnails call that created it
    ncycles,          \* populate_thumbnails calls so far
    shown,            \* the last populate_thumbnails call: its arguments and results
    event             \* the handler that ran last

scanVars == <<sc_pc, sc_dir, sc_walk, sc_exts, sc_rec, sc_lim, sc_res>>
flowVars == <<fl_pc, fl_items, fl_spacing, fl_rect, fl_geom, fl_ret>>
appVars  == <<alive, config, fs, settings_window, checkedId, label, _timer, qtimers,
              timer_button, _item_list, ncycles, shown, event>>

vars == <<sc_pc, sc_dir, sc_walk, sc_exts, sc_rec, sc_lim, sc_res,
          fl_pc, fl_items, fl_spacing, fl_rect, fl_geom, fl_ret,
          alive, config, fs, settings_window, checkedId, label, _timer, qtimers,
          timer_button, _item_list, ncycles, shown, event>>

(***************************************************************************)
(* Bounds                                                                  *)
(***************************************************************************)
MaxLimit  == 2       \* limit arguments range over -1 .. MaxLimit, and None
MaxTiles  == 3       \* the flow layout harness holds at most MaxTiles items
MaxCycles == 3       \* populate_thumbnails runs at most MaxCycles times
MaxTimers == 2       \* start_qtimer runs at most MaxTimers times

(***************************************************************************)
(* Strings                                                                 *)
(***************************************************************************)
Dot == <<46>>

\* str.lower on one ASCII character code
lower_char(c) == IF c >= 65 /\ c <= 90 THEN c + 32 ELSE c

\* str.lower
lower(s) == [i \in 1..Len(s) |-> lower_char(s[i])]

\* str.startswith('.')
startswith_dot(s) == Len(s) >= 1 /\ s[1] = 46

\* os.path.splitext(name)[1] for a name without separators: the text from the
\* last dot on, provided some character before that dot is not a dot.
splitext_ext(name) ==
    LET dots == {i \in 1..Len(name) : name[i] = 46}
    IN  IF dots = {} THEN <<>>
        ELSE LET dotIndex == CHOOSE i \in dots : \A j \in dots : j <= i
             IN  IF \E k \in 1..(dotIndex - 1) : name[k] # 46
                 THEN SubSeq(name, dotIndex, Len(name))
                 ELSE <<>>

\* Python's str comparison a < b: by code point, a proper prefix first
RECURSIVE str_lt(_, _)
str_lt(a, b) ==
    IF Len(b) = 0 THEN FALSE
    ELSE IF Len(a) = 0 THEN TRUE
    ELSE IF a[1] < b[1] THEN TRUE
    ELSE IF a[1] > b[1] THEN FALSE
    ELSE str_lt(Tail(a), Tail(b))

\* the order a case-folding sort key would give (not what the code does)
sorted_casefold_lt(a, b) == str_lt(lower(a), lower(b)) \/ (lower(a) = lower(b) /\ str_lt(a, b))

RECURSIVE sorted_casefold(_)
sorted_casefold(S) ==
    IF S = {} THEN <<>>
    ELSE LET m == CHOOSE x \in S : \A y \in S \ {x} : sorted_casefold_lt(x, y)
         IN  <<m>> \o sorted_casefold(S \ {m})

\* sorted(names): ascending by str comparison
RECURSIVE sorted(_)
sorted(S) ==
    IF S = {} THEN <<>>
    ELSE LET m == CHOOSE x \in S : \A y \in S \ {x} : str_lt(x, y)
         IN  <<m>> \o sorted(S \ {m})

(***************************************************************************)
(* File names                                                              *)
(***************************************************************************)
a_png   == <<97, 46, 112, 110, 103>>         \* "a.png"
b_txt   == <<98, 46, 116, 120, 116>>         \* "b.txt"
C_JPG   == <<67, 46, 74, 80, 71>>            \* "C.JPG"
d_noext == <<100>>                           \* "d"
dot_png == <<46, 112, 110, 103>>             \* ".png" (a hidden file without extension)
s_png   == <<115, 46, 112, 110, 103>>        \* "s.png", used as a directory name
t_dir   == <<116>>                           \* "t", used as a directory name
e_dot   == <<101, 46>>                       \* "e." (its extension is ".")

DEFAULT_IMAGE_EXTS ==
    { <<46, 112, 110, 103>>,                 \* .png
      <<46, 106, 112, 103>>,                 \* .jpg
      <<46, 106, 112, 101, 103>>,            \* .jpeg
      <<46, 103, 105, 102>>,                 \* .gif
      <<46, 98, 109, 112>>,                  \* .bmp
      <<46, 119, 101, 98, 112>>,             \* .webp
      <<46, 116, 105, 102, 102>> }           \* .tiff

(***************************************************************************)
(* list_image_files                                                        *)
(*                                                                         *)
(* walk is the file system under dir_path as os.walk yields it: a sequence *)
(* of [root, dirs, files], the first entry being dir_path itself; the      *)
(* empty sequence is a missing or unreadable directory.  A path is         *)
(* [dir |-> dir_path, rel |-> <<component, ...>>].                         *)
(***************************************************************************)
NoneArg == [none |-> TRUE]
Some(x) == [none |-> FALSE, v |-> x]

\* Python truthiness of the limit argument: None and 0 are false
truthy(limit) == ~limit.none /\ limit.v # 0

\* the set comprehension of line 28 without the leading-dot rule
exts_set_nodot(exts) ==
    IF exts.none THEN DEFAULT_IMAGE_EXTS
    ELSE {lower(exts.v[i]) : i \in 1..Len(exts.v)}

exts_set(exts) ==
    IF exts.none THEN DEFAULT_IMAGE_EXTS
    ELSE {IF startswith_dot(exts.v[i]) THEN lower(exts.v[i]) ELSE Dot \o lower(exts.v[i])
            : i \in 1..Len(exts.v)}

os_path_join(dir_path, root, name) == [dir |-> dir_path, rel |-> root \o <<name>>]

\* lines 41-49: the loop over sorted(os.listdir(dir_path)), from index i on
RECURSIVE listdir_loop(_, _, _, _, _, _, _)
listdir_loop(names, i, dir_path, top, es, limit, results) ==
    IF i > Len(names) THEN results
    ELSE LET name == names[i]
             full == os_path_join(dir_path, <<>>, name)
         IN  IF name \notin top.files
             THEN listdir_loop(names, i + 1, dir_path, top, es, limit, results)
             ELSE IF lower(splitext_ext(name)) \in es
                  THEN LET r2 == Append(results, full)
                       IN  IF truthy(limit) /\ Len(r2) >= limit.v
                           THEN r2
                           ELSE listdir_loop(names, i + 1, dir_path, top, es, limit, r2)
                  ELSE listdir_loop(names, i + 1, dir_path, top, es, limit, results)

\* lines 33-39: the loops over os.walk(dir_path), from entry w, file index i on
RECURSIVE walk_loop(_, _, _, _, _, _, _)
walk_loop(walk, w, i, dir_path, es, limit, results) ==
    IF w > Len(walk) THEN results
    ELSE LET names == sorted(walk[w].files)
         IN  IF i > Len(names) THEN walk_loop(walk, w + 1, 1, dir_path, es, limit, results)
             ELSE IF lower(splitext_ext(names[i])) \in es
                  THEN LET r2 == Append(results, os_path_join(dir_path, walk[w].root, names[i]))
                       IN  IF truthy(limit) /\ Len(r2) >= limit.v
                           THEN r2
                           ELSE walk_loop(walk, w, i + 1, dir_path, es, limit, r2)
                  ELSE walk_loop(walk, w, i + 1, dir_path, es, limit, results)

list_image_files(dir_path, walk, exts, recursive, limit) ==
    IF dir_path = "" THEN <<>>
    ELSE IF recursive
         THEN walk_loop(walk, 1, 1, dir_path, exts_set(exts), limit, <<>>)
         ELSE IF walk = <<>> THEN <<>>     \* os.listdir raised: except returns results
              ELSE listdir_loop(sorted(walk[1].files \cup walk[1].dirs), 1, dir_path,
                                walk[1], exts_set(exts), limit, <<>>)

(***************************************************************************)
(* FlowLayout.doLayout                                                     *)
(***************************************************************************)
QRect(x, y, width, height) == [x |-> x, y |-> y, width |-> width, height |-> height]

\* QRect.right(): left + width - 1
QRect_right(rect) == rect.x + rect.width - 1

Max(a, b) == IF a >= b THEN a ELSE b

\* a wrap test that looks at the cursor x instead of the item's right edge
wraps_on_cursor(x, width, spaceX, rect, lineHeight) ==
    x > QRect_right(rect) /\ lineHeight > 0

\* lines 267-268: nextX = x + width + spaceX;
\* nextX - spaceX > rect.right() and lineHeight > 0
wraps(x, width, spaceX, rect, lineHeight) ==
    (x + width + spaceX) - spaceX > QRect_right(rect) /\ lineHeight > 0

\* lines 263-278: the loop over _item_list from item i on; geom collects the
\* positions handed to item.setGeometry (kept as they were when testOnly)
RECURSIVE doLayout_loop(_, _, _, _, _, _, _, _, _)
doLayout_loop(items, i, rect, spacing, testOnly, x, y, lineHeight, geom) ==
    IF i > Len(items) THEN [geom |-> geom, ret |-> y + lineHeight - rect.y]
    ELSE LET spaceX == spacing
             spaceY == spacing
             nextX0 == x + items[i].w + spaceX
             wrap   == wraps(x, items[i].w, spaceX, rect, lineHeight)
             x1     == IF wrap THEN rect.x ELSE x
             y1     == IF wrap THEN y + lineHeight + spaceY ELSE y
             nextX  == IF wrap THEN x1 + items[i].w + spaceX ELSE nextX0
             lh1    == IF wrap THEN 0 ELSE lineHeight
             geom1  == IF testOnly THEN geom
                       ELSE [geom EXCEPT ![i] = [x |-> x1, y |-> y1]]
         IN  doLayout_loop(items, i + 1, rect, spacing, testOnly,
                           nextX, y1, Max(lh1, items[i].h), geom1)

doLayout(items, spacing, geom, rect, testOnly) ==
    doLayout_loop(items, 1, rect, spacing, testOnly, rect.x, rect.y, 0, geom)


(***************************************************************************)
(* FlowLayout as a container, clear_layout, load_thumbnails,               *)
(* populate_thumbnails                                                     *)
(***************************************************************************)
\* FlowLayout.count
count(item_list) == Len(item_list)

\* FlowLayout.takeAt(index) for an index in range: the list without that item
takeAt(item_list, index) ==
    [i \in 1..(Len(item_list) - 1) |-> IF i < index + 1 THEN item_list[i] ELSE item_list[i + 1]]

\* FlowLayout.addItem, reached from QLayout.addWidget
addItem(item_list, item) == Append(item_list, item)

\* a clear_layout that tests count() once instead of looping
clear_layout_once(item_list) ==
    IF count(item_list) # 0 THEN takeAt(item_list, 0) ELSE item_list

\* clear_layout: while layout.count(): layout.takeAt(0)
RECURSIVE clear_layout(_)
clear_layout(item_list) ==
    IF count(item_list) # 0 THEN clear_layout(takeAt(item_list, 0)) ELSE item_list

\* load_thumbnails after the scan: the paths whose QPixmap is not null, in the
\* order of files; bad holds the names that do not decode
RECURSIVE load_thumbnails_loop(_, _, _, _)
load_thumbnails_loop(files, i, bad, thumbnails) ==
    IF i > Len(files) THEN thumbnails
    ELSE IF files[i].rel[Len(files[i].rel)] \in bad
         THEN load_thumbnails_loop(files, i + 1, bad, thumbnails)
         ELSE load_thumbnails_loop(files, i + 1, bad, Append(thumbnails, files[i]))

load_thumbnails(files, bad) ==
    IF files = <<>> THEN <<>> ELSE load_thumbnails_loop(files, 1, bad, <<>>)

\* populate_thumbnails' default limit
PopulateLimit == 24

\* lines 128-137: one QLabel per thumbnail, added to the layout
RECURSIVE add_labels(_, _, _, _)
add_labels(item_list, thumbs, i, cyc) ==
    IF i > Len(thumbs) THEN item_list
    ELSE add_labels(addItem(item_list, [path |-> thumbs[i], cycle |-> cyc]), thumbs, i + 1, cyc)

\* populate_thumbnails(layout, dir_path) as call number cyc, on a directory
\* holding the regular files names, of which bad do not decode.  The
\* layout.addStretch() of line 142 raises AttributeError on a FlowLayout and
\* is swallowed.
populate_thumbnails(item_list, dir_path, names, bad, cyc) ==
    LET cleared == clear_layout(item_list)
        files   == list_image_files(dir_path, <<[root |-> <<>>, dirs |-> {}, files |-> names]>>,
                                    NoneArg, FALSE, Some(PopulateLimit))
        thumbs  == load_thumbnails(files, bad)
        filled  == add_labels(cleared, thumbs, 1, cyc)
    IN  [item_list |-> filled,
         added     |-> Len(thumbs),
         call      |-> [cycle |-> cyc, dir |-> dir_path, files |-> files, bad |-> bad,
                        removed |-> count(item_list), added |-> Len(thumbs)]]

(***************************************************************************)
(* start_qtimer, stop_qtimer, SimpleApp, SettingsWindow                    *)
(***************************************************************************)
\* start_qtimer(interval_ms, callback): a new running QTimer; the callback is
\* lambda: populate_thumbnails(self.thumbs_layout, current_path), kept by the
\* path it closes over
start_qtimer(timers, interval_ms, current_path) ==
    Append(timers, [interval |-> interval_ms, current_path |-> current_path, active |-> TRUE])

\* a stop_qtimer that returns without timer.stop()
stop_qtimer_noop(timers, t) == timers

\* stop_qtimer(timer)
stop_qtimer(timers, t) ==
    IF t = 0 THEN timers ELSE [timers EXCEPT ![t].active = FALSE]

\* toggle_timer without the early return of lines 158-159
no_path_check(current_path) == FALSE

\* lines 158-159: if not current_path: return
not_current_path(current_path) == current_path = ""

\* SettingsWindow.get_interval_seconds reads self.rb_group, which only
\* SimpleApp has: the call raises AttributeError
get_interval_seconds_raises == TRUE

\* lines 161-167: the seconds toggle_timer arrives at
seconds_at_start ==
    IF ~settings_window.none
    THEN IF get_interval_seconds_raises THEN 10 ELSE checkedId
    ELSE IF config.interval_seconds.none THEN 10 ELSE config.interval_seconds.v

Dirs == {"A", "B"}

\* the files of a directory that may fail to decode (QPixmap.isNull), as sets:
\* a.png is the file whose content may be corrupt
Undecodable(dir_path, files) ==
    IF dir_path \in Dirs THEN SUBSET (files[dir_path] \cap {a_png}) ELSE {{}}

\* one populate_thumbnails call of a handler, as call number ncycles + 1
Populate(dir_path, bad) ==
    LET r == populate_thumbnails(_item_list, dir_path,
                                 IF dir_path \in Dirs THEN fs[dir_path] ELSE {}, bad, ncycles + 1)
    IN  /\ _item_list' = r.item_list
        /\ shown' = r.call
        /\ ncycles' = ncycles + 1

(***************************************************************************)
(* Each specification keeps the other parts at rest                        *)
(***************************************************************************)
ScanIdle ==
    /\ sc_pc = "idle"
    /\ sc_dir = ""
    /\ sc_walk = <<>>
    /\ sc_exts = NoneArg
    /\ sc_rec = FALSE
    /\ sc_lim = NoneArg
    /\ sc_res = <<>>

FlowIdle ==
    /\ fl_pc = "idle"
    /\ fl_items = <<>>
    /\ fl_spacing = 6
    /\ fl_rect = QRect(0, 0, 0, 0)
    /\ fl_geom = <<>>
    /\ fl_ret = 0

NoCall == [cycle |-> 0, dir |-> "", files |-> <<>>, bad |-> {}, removed |-> 0, added |-> 0]

AppIdle ==
    /\ alive = FALSE
    /\ config = [wallpaper_path |-> "", interval_seconds |-> NoneArg]
    /\ fs = [d \in Dirs |-> {}]
    /\ settings_window = NoneArg
    /\ checkedId = 10
    /\ label = ""
    /\ _timer = 0
    /\ qtimers = <<>>
    /\ timer_button = "Start"
    /\ _item_list = <<>>
    /\ ncycles = 0
    /\ shown = NoCall
    /\ event = "idle"

(***************************************************************************)
(* The scanner checked as a function: Init draws the arguments and the     *)
(* directory content, ScanCall applies list_image_files.                   *)
(***************************************************************************)
ScanNames == {a_png, b_txt, C_JPG, d_noext, dot_png, e_dot}
SubNames  == {a_png, b_txt}

\* the directory trees: regular files of dir_path, and up to two
\* subdirectories (one of them named like an image), visited in either order
TopEntry(files, dirs) == [root |-> <<>>, dirs |-> dirs, files |-> files]
SubEntry(d, files)    == [root |-> <<d>>, dirs |-> {}, files |-> files]

Walks ==
    {<<>>}
    \cup {<<TopEntry(f, {})>> : f \in SUBSET ScanNames}
    \cup {<<TopEntry(f, {s_png}), SubEntry(s_png, g)>> :
            f \in SUBSET {a_png, b_txt, C_JPG}, g \in SUBSET SubNames}
    \cup {<<TopEntry(f, {s_png, t_dir}), SubEntry(p[1], g), SubEntry(p[2], {a_png})>> :
            f \in {{}, {a_png}}, g \in {{}, {b_txt}, SubNames},
            p \in {<<s_png, t_dir>>, <<t_dir, s_png>>}}

ExtArgs ==
    { NoneArg,
      Some(<<>>),
      Some(<< <<>> >>),                                          \* ['']
      Some(<< <<80, 78, 71>> >>),                                \* ['PNG']
      Some(<< <<46, 74, 112, 103>>, <<116, 120, 116>> >>) }      \* ['.Jpg', 'txt']

LimitArgs == {NoneArg} \cup {Some(n) : n \in (-1)..MaxLimit}

ScanInit ==
    /\ sc_pc = "ready"
    /\ sc_dir \in {"", "D"}
    /\ sc_walk \in Walks
    /\ sc_exts \in ExtArgs
    /\ sc_rec \in BOOLEAN
    /\ sc_lim \in LimitArgs
    /\ sc_res = <<>>
    /\ FlowIdle
    /\ AppIdle

ScanCall ==
    /\ sc_pc = "ready"
    /\ sc_res' = list_image_files(sc_dir, sc_walk, sc_exts, sc_rec, sc_lim)
    /\ sc_pc' = "done"
    /\ UNCHANGED <<sc_dir, sc_walk, sc_exts, sc_rec, sc_lim>>
    /\ UNCHANGED <<flowVars, appVars>>

ScanNext == ScanCall

SpecScan == ScanInit /\ [][ScanNext]_vars

(***************************************************************************)
(* The layout checked as a function: Init draws the items and the spacing, *)
(* setGeometry and heightForWidth apply doLayout to a rectangle.           *)
(***************************************************************************)
\* Every item is a QLabel fixed to the size of a non-null scaled pixmap, so
\* widths and heights are at least 1.
TileSizes  == {[w |-> 50, h |-> 50], [w |-> 60, h |-> 70], [w |-> 110, h |-> 1]}
Spacings   == {6, 10}
RectWidths == {100, 110, 120}
RectLefts  == {0, 4}

TileSeqs == UNION {[1..n -> TileSizes] : n \in 0..MaxTiles}

FlowInit ==
    /\ fl_pc = "new"
    /\ fl_items \in TileSeqs
    /\ fl_spacing \in Spacings
    /\ fl_rect = QRect(0, 0, 0, 0)
    /\ fl_geom = [i \in 1..Len(fl_items) |-> [x |-> 0, y |-> 0]]
    /\ fl_ret = 0
    /\ ScanIdle
    /\ AppIdle

\* FlowLayout.setGeometry(rect)
setGeometry(rect) ==
    /\ LET r == doLayout(fl_items, fl_spacing, fl_geom, rect, FALSE)
       IN  /\ fl_geom' = r.geom
           /\ fl_ret' = r.ret
    /\ fl_rect' = rect
    /\ fl_pc' = "laid"
    /\ UNCHANGED <<fl_items, fl_spacing>>
    /\ UNCHANGED <<scanVars, appVars>>

\* FlowLayout.heightForWidth(width)
heightForWidth(width) ==
    /\ LET r == doLayout(fl_items, fl_spacing, fl_geom, QRect(0, 0, width, 0), TRUE)
       IN  /\ fl_geom' = r.geom
           /\ fl_ret' = r.ret
    /\ UNCHANGED <<fl_pc, fl_items, fl_spacing, fl_rect>>
    /\ UNCHANGED <<scanVars, appVars>>

FlowNext ==
    \/ \E x \in RectLefts, width \in RectWidths : setGeometry(QRect(x, 0, width, 200))
    \/ \E width \in RectWidths : heightForWidth(width)

SpecFlow == FlowInit /\ [][FlowNext]_vars

(***************************************************************************)
(* The application: the state after SimpleApp.__init__, one action per     *)
(* handler                                                                 *)
(***************************************************************************)
IntervalConfigs == {NoneArg, Some(0), Some(5)}
RadioIds == {5, 10, 15}

\* config.ini as read at start-up, and SimpleApp.__init__: the initial
\* populate_thumbnails runs only when wallpaper_path is set
Init ==
    /\ alive = TRUE
    /\ config \in [wallpaper_path : {""} \cup Dirs, interval_seconds : IntervalConfigs]
    /\ fs = [d \in Dirs |-> IF d = "A" THEN {a_png, b_txt, C_JPG} ELSE {a_png}]
    /\ settings_window = NoneArg
    /\ checkedId \in RadioIds
    /\ label = config.wallpaper_path
    /\ _timer = 0
    /\ qtimers = <<>>
    /\ timer_button = "Start"
    /\ IF config.wallpaper_path # ""
       THEN \E bad \in Undecodable(config.wallpaper_path, fs) :
              LET r == populate_thumbnails(<<>>, config.wallpaper_path,
                                           fs[config.wallpaper_path], bad, 1)
              IN  /\ _item_list = r.item_list
                  /\ shown = r.call
                  /\ ncycles = 1
       ELSE /\ _item_list = <<>>
            /\ shown = NoCall
            /\ ncycles = 0
    /\ event = "init"
    /\ ScanIdle
    /\ FlowIdle

\* SimpleApp.toggle_timer: a click on the Start/Stop button
toggle_timer ==
    /\ alive
    /\ IF _timer = 0
       THEN LET current_path == config.wallpaper_path
            IN  IF not_current_path(current_path)
                THEN UNCHANGED <<_timer, qtimers, timer_button>>
                ELSE /\ Len(qtimers) < MaxTimers
                     /\ qtimers' = start_qtimer(qtimers, Max(1, seconds_at_start) * 1000,
                                                current_path)
                     /\ _timer' = Len(qtimers) + 1
                     /\ timer_button' = "Stop"
       ELSE /\ qtimers' = stop_qtimer(qtimers, _timer)
            /\ _timer' = 0
            /\ timer_button' = "Start"
    /\ event' = "toggle_timer"
    /\ UNCHANGED <<alive, config, fs, settings_window, checkedId, label, _item_list,
                   ncycles, shown>>
    /\ UNCHANGED <<scanVars, flowVars>>

\* the timeout of QTimer t: its callback runs populate_thumbnails on the path
\* the lambda closed over
timeout(t) ==
    /\ alive
    /\ t \in 1..Len(qtimers)
    /\ qtimers[t].active
    /\ ncycles < MaxCycles
    /\ \E bad \in Undecodable(qtimers[t].current_path, fs) :
          Populate(qtimers[t].current_path, bad)
    /\ event' = "timeout"
    /\ UNCHANGED <<alive, config, fs, settings_window, checkedId, label, _timer, qtimers,
                   timer_button>>
    /\ UNCHANGED <<scanVars, flowVars>>

\* SimpleApp.on_click: open (or raise) the settings window
on_click ==
    /\ alive
    /\ settings_window' = IF settings_window.none THEN Some(config.wallpaper_path)
                          ELSE settings_window
    /\ event' = "on_click"
    /\ UNCHANGED <<alive, config, fs, checkedId, label, _timer, qtimers, timer_button,
                   _item_list, ncycles, shown>>
    /\ UNCHANGED <<scanVars, flowVars>>

\* SettingsWindow.browse_folder, the dialog returning directory ("" on cancel)
browse_folder(directory) ==
    /\ alive
    /\ ~settings_window.none
    /\ IF directory = ""
       THEN UNCHANGED <<config, settings_window, label, _item_list, ncycles, shown>>
       ELSE /\ ncycles < MaxCycles
            /\ config' = [config EXCEPT !.wallpaper_path = directory]
            /\ settings_window' = Some(directory)
            /\ label' = directory
            /\ \E bad \in Undecodable(directory, fs) : Populate(directory, bad)
    /\ event' = "browse_folder"
    /\ UNCHANGED <<alive, fs, checkedId, _timer, qtimers, timer_button>>
    /\ UNCHANGED <<scanVars, flowVars>>

\* a radio button toggled to id (custom_spin.valueChanged runs the same slot):
\* save_time calls self.get_interval_seconds(),
\* which SimpleApp does not have, so the slot raises AttributeError before it
\* writes the configuration; PyQt then either reports the exception and goes
\* on or aborts the process
save_time(id) ==
    /\ alive
    /\ id # checkedId
    /\ checkedId' = id
    /\ alive' \in BOOLEAN
    /\ event' = "save_time"
    /\ UNCHANGED <<config, fs, settings_window, label, _timer, qtimers, timer_button,
                   _item_list, ncycles, shown>>
    /\ UNCHANGED <<scanVars, flowVars>>

\* the environment adds or removes a regular file of a directory while the
\* application runs
file_change(d, n) ==
    /\ alive
    /\ fs' = [fs EXCEPT ![d] = IF n \in fs[d] THEN fs[d] \ {n} ELSE fs[d] \cup {n}]
    /\ UNCHANGED <<alive, config, settings_window, checkedId, label, _timer, qtimers,
                   timer_button, _item_list, ncycles, shown, event>>
    /\ UNCHANGED <<scanVars, flowVars>>

Next ==
    \/ toggle_timer
    \/ \E t \in 1..MaxTimers : timeout(t)
    \/ on_click
    \/ \E directory \in {""} \cup Dirs : browse_folder(directory)
    \/ \E id \in RadioIds : save_time(id)
    \/ file_change("A", C_JPG)

Spec == Init /\ [][Next]_vars

(***************************************************************************)
(* Claims about the scanner (checked under SpecScan)                       *)
(***************************************************************************)
ScanPath(name) == [dir |-> sc_dir, rel |-> <<name>>]

\* C4: whenever a limit is given (any integer, 0 included), the list returned
\* by list_image_files, recursive or not, is no longer than the limit.
\* (Stated for the limits a length can respect, 0 and up.)
C4_LengthNeverExceedsLimit ==
    (sc_pc = "done" /\ ~sc_lim.none /\ sc_lim.v >= 0) => Len(sc_res) <= sc_lim.v

\* the scan of the scenario: a.png, b.txt and C.JPG as regular files, default
\* extensions, not recursive, no limit
C5_Scenario ==
    /\ sc_pc = "done"
    /\ sc_dir # ""
    /\ sc_walk = <<TopEntry({a_png, b_txt, C_JPG}, {})>>
    /\ sc_exts.none
    /\ ~sc_rec
    /\ sc_lim.none

\* C5 as stated: the scenario scan returns [a.png, C.JPG] in that order.
C5_ReturnsLowerCaseNameFirst ==
    C5_Scenario => sc_res = <<ScanPath(a_png), ScanPath(C_JPG)>>

\* C5 amended: the scenario scan returns [C.JPG, a.png]: b.txt is filtered out,
\* .JPG matches case-insensitively, and the names are ordered by code point,
\* where the upper-case C precedes the lower-case a.
C5_ReturnsCodePointOrder ==
    C5_Scenario => sc_res = <<ScanPath(C_JPG), ScanPath(a_png)>>

C5_Witness == C5_Scenario /\ Len(sc_res) = 2

\* the extension filter as the claim words it: each entry lower-cased and given
\* a leading dot when it has none, the default set for None
C9_Normalised(E) ==
    IF E.none THEN DEFAULT_IMAGE_EXTS
    ELSE {IF Len(E.v[i]) > 0 /\ Head(E.v[i]) = 46 THEN lower(E.v[i]) ELSE <<46>> \o lower(E.v[i])
            : i \in 1..Len(E.v)}

C9_Case ==
    /\ sc_pc = "done"
    /\ sc_dir # ""
    /\ sc_walk # <<>>
    /\ ~sc_rec
    /\ sc_lim.none

\* C9: a non-recursive scan without a limit returns exactly the direct children
\* that are regular files and whose lower-cased extension is in the normalised
\* extension list: nothing else is returned, nothing matching is left out, and
\* nothing is returned twice.
C9_ExactlyTheMatchingFiles ==
    C9_Case =>
        /\ {sc_res[i] : i \in 1..Len(sc_res)} =
             {ScanPath(n) : n \in {m \in sc_walk[1].files :
                                     lower(splitext_ext(m)) \in C9_Normalised(sc_exts)}}
        /\ \A i, j \in 1..Len(sc_res) : sc_res[i] = sc_res[j] => i = j

\* a dot-less upper-case entry ['PNG'] selects a.png, and leaves out b.txt and
\* the directory s.png
C9_Witness ==
    /\ C9_Case
    /\ ~sc_exts.none /\ Len(sc_exts.v) = 1 /\ ~startswith_dot(sc_exts.v[1])
    /\ {a_png, b_txt} \subseteq sc_walk[1].files
    /\ s_png \in sc_walk[1].dirs
    /\ sc_res = <<ScanPath(a_png)>>


(***************************************************************************)
(* Claims about the flow layout (checked under SpecFlow)                   *)
(***************************************************************************)
FlowRight(i) == fl_geom[i].x + fl_items[i].w          \* right edge of item i
FlowLimit == fl_rect.x + fl_rect.width                \* where the available width ends
FlowWrapped(i) == i > 1 /\ fl_geom[i].y # fl_geom[i - 1].y
FlowFirstOfRow(i) ==
    fl_geom[i].x = fl_rect.x /\ \A j \in 1..(i - 1) : fl_geom[j].y # fl_geom[i].y
FlowAllFit == \A k \in 1..Len(fl_items) : fl_items[k].w <= fl_rect.width

\* C6: a tile is wrapped only when current_x + tile.width strictly exceeds the
\* available width (a tile whose right edge equals the available width stays
\* in its row); and three tiles of width 50 with spacing 10 in a width of 120
\* are placed at x = 0 and x = 60 in row 1 and at x = 0 in row 2.
C6_WrapsOnlyWhenStrictlyExceeding ==
    fl_pc = "laid" =>
        /\ \A i \in 2..Len(fl_items) :
              FlowWrapped(i) =>
                  (fl_geom[i - 1].x + fl_items[i - 1].w + fl_spacing) + fl_items[i].w > FlowLimit
        /\ ( /\ fl_spacing = 10
             /\ fl_rect.x = 0
             /\ fl_rect.width = 120
             /\ Len(fl_items) = 3
             /\ \A k \in 1..3 : fl_items[k].w = 50 )
           => /\ fl_geom[1].x = 0
              /\ fl_geom[2].x = 60
              /\ fl_geom[2].y = fl_geom[1].y
              /\ fl_geom[3].x = 0
              /\ fl_geom[3].y > fl_geom[2].y

\* C10: when the available width is at least the widest tile, tiles of one row
\* do not overlap (a later tile starts at least spacing after an earlier
\* tile's right edge) and no tile's right edge lies beyond the available
\* width; in any width, a tile placed past the available width is the first
\* tile of its row.
C10_NoOverlapNoOverflow ==
    fl_pc = "laid" =>
        /\ FlowAllFit =>
              /\ \A i \in 1..Len(fl_items) : FlowRight(i) <= FlowLimit
              /\ \A i, j \in 1..Len(fl_items) :
                    (i < j /\ fl_geom[i].y = fl_geom[j].y)
                        => fl_geom[j].x >= FlowRight(i) + fl_spacing
        /\ \A i \in 1..Len(fl_items) : FlowRight(i) > FlowLimit => FlowFirstOfRow(i)

\* three tiles that all fit: two share a row, the third has wrapped
C10_Witness ==
    /\ fl_pc = "laid"
    /\ Len(fl_items) = 3
    /\ FlowAllFit
    /\ fl_geom[2].y = fl_geom[1].y /\ fl_geom[2].x > fl_geom[1].x
    /\ FlowWrapped(3)

(***************************************************************************)
(* Claims about the application (checked under Spec)                       *)
(***************************************************************************)
\* C1: a timer tick refreshes from the folder configured at the moment of the
\* tick.
C1_TickScansConfiguredFolder ==
    event = "timeout" => shown.dir = config.wallpaper_path

\* C2: at most one timer created by start_qtimer is running, and it is the one
\* self._timer refers to: every other timer ever started has been stopped.
C2_AtMostOneTimerRunning ==
    /\ Cardinality({t \in 1..Len(qtimers) : qtimers[t].active}) <= 1
    /\ \A t \in 1..Len(qtimers) : qtimers[t].active <=> t = _timer
    /\ _timer \in 0..Len(qtimers)

\* started, stopped and started again: the first timer is stopped, the second runs
C2_Witness ==
    /\ Len(qtimers) = 2
    /\ _timer = 2
    /\ ~qtimers[1].active
    /\ qtimers[2].active

\* C3: once a populate_thumbnails call has returned, the layout holds exactly
\* the labels that call created, one per decodable file in the order of its
\* scan, none from an earlier call, and as many as the call returned.
C3_LayoutIsLastCycle ==
    shown.cycle > 0 =>
        /\ shown.cycle = ncycles
        /\ Len(_item_list) = shown.added
        /\ [i \in 1..Len(_item_list) |-> _item_list[i].path]
             = SelectSeq(shown.files, LAMBDA f : f.rel[Len(f.rel)] \notin shown.bad)
        /\ \A i \in 1..Len(_item_list) : _item_list[i].cycle = shown.cycle

\* a later call that found two labels of an earlier call in the layout
C3_Witness ==
    /\ shown.cycle >= 2
    /\ shown.removed = 2
    /\ Len(_item_list) >= 1

\* C7: while no wallpaper directory is configured, clicks on Start start no
\* timer and change nothing: self._timer stays None, the button reads Start,
\* no timer exists and no refresh has run.
C7_NoPathNoTimer ==
    config.wallpaper_path = "" =>
        /\ _timer = 0
        /\ timer_button = "Start"
        /\ qtimers = <<>>
        /\ ncycles = 0
        /\ _item_list = <<>>

C7_Witness == config.wallpaper_path = "" /\ event = "toggle_timer"

\* C8: the running timer's interval is 1000 ms times the configured number of
\* seconds (at least 1; 10 when none is configured), whether or not the
\* settings window has been opened.
C8_IntervalFromConfiguration ==
    _timer # 0 =>
        qtimers[_timer].interval =
            1000 * Max(1, IF config.interval_seconds.none THEN 10 ELSE config.interval_seconds.v)

====
